---- MODULE Spec2Model ----
(***************************************************************************)
(* State-machine model of fires.py: the daily fire-snapshot pipeline       *)
(* main -> get_latest_fire_data -> process_fire_data_with_earthkit ->      *)
(* analyze_fire_data -> save_fire_data, run by one or more invocations on  *)
(* one shared output directory.                                            *)
(***************************************************************************)
EXTENDS Integers, Sequences, FiniteSets, TLC

VARIABLES
    today,        \* datetime.now() as read by get_latest_fire_data
    dir,          \* the output directory "fire_data": file name -> content
    tmp,          \* the temporary files that exist on disk (one name per call)
    pc,           \* position of each invocation of main
    requested,    \* the GET requests each invocation has issued, in order
    response,     \* the loop's current response (error or parsed table)
    df,           \* the table an invocation carries after the fetch
    source_name,  \* the source the table came from
    listed,       \* the names glob.glob returned and the loop has not removed yet
    stages,       \* the stages of main that completed, in order
    error,        \* the exception main caught, if any
    result        \* what main returned

vars == <<today, dir, tmp, pc, requested, response, df, source_name, listed,
          stages, error, result>>

(***************************************************************************)
(* Bounds of the model.                                                    *)
(***************************************************************************)
MaxRows == 3

Procs == {1, 2}

(***************************************************************************)
(* Dates and their formatting.                                             *)
(***************************************************************************)
Days == { [y |-> 2026, m |-> 11, d |-> 1], [y |-> 2026, m |-> 11, d |-> 2] }

\* The acq_date strings a response may carry: two well-formed days and one
\* day written without zero padding.
DateStrs == { "2026-11-01", "2026-11-02", "2026-11-2" }

Pad(n, w) ==
    LET s == ToString(n)
        digits == IF n < 10 THEN 1 ELSE IF n < 100 THEN 2 ELSE IF n < 1000 THEN 3 ELSE 4
        zeros == [k \in 0..4 |-> CASE k = 0 -> "" [] k = 1 -> "0" [] k = 2 -> "00"
                                   [] k = 3 -> "000" [] OTHER -> "0000"]
    IN  IF digits >= w THEN s ELSE zeros[w - digits] \o s

\* "%Y-%m-%d" without the zero padding
strftime_unpadded(date) ==
    ToString(date.y) \o "-" \o ToString(date.m) \o "-" \o ToString(date.d)

\* today.strftime("%Y-%m-%d")
strftime(date) ==
    Pad(date.y, 4) \o "-" \o Pad(date.m, 2) \o "-" \o Pad(date.d, 2)

(***************************************************************************)
(* Tables (pandas DataFrames): a set of columns and a sequence of rows,    *)
(* each row a function from the columns to values.                         *)
(***************************************************************************)
Columns == { "acq_date", "acq_time", "latitude", "longitude", "confidence", "frp" }

\* a missing frp value (an empty CSV field); real frp values are >= 0
NaN == -1

\* A table with n rows whose acq_date and frp values are given; the other
\* fields of row k are derived from k, so that rows are told apart.
MkTable(cols, dates, frps) ==
    [ cols |-> cols,
      rows |-> [ k \in 1..Len(dates) |->
                   [ c \in cols |->
                       CASE c = "acq_date" -> dates[k]
                         [] c = "frp"      -> frps[k]
                         [] c = "acq_time" -> 100 * k
                         [] OTHER          -> k ] ] ]

Tables(colsets, dateset, frpset) ==
    UNION { { MkTable(cols, ds, fs) :
                cols \in colsets,
                ds \in [1..n -> dateset],
                fs \in [1..n -> frpset] } : n \in 0..MaxRows }

ErrorResponse == [ kind |-> "error" ]

TableResponse(t) == [ kind |-> "table", table |-> t ]

Responses(tables) == { ErrorResponse } \cup { TableResponse(t) : t \in tables }

\* df.empty
empty(t) == Len(t.rows) = 0 \/ t.cols = {}

\* the filter with the kept rows in reverse order
filter_reversed(t, today_str) ==
    LET kept == SelectSeq(t.rows, LAMBDA r : r["acq_date"] = today_str)
    IN  [ cols |-> t.cols,
          rows |-> [ k \in 1..Len(kept) |-> kept[Len(kept) + 1 - k] ] ]

\* df[df['acq_date'] == today_str]
filter_today(t, today_str) ==
    [ cols |-> t.cols,
      rows |-> SelectSeq(t.rows, LAMBDA r : r["acq_date"] = today_str) ]

(***************************************************************************)
(* The sources and their URLs.  A URL is the sequence of its path          *)
(* segments (joined by "/" in the code).                                   *)
(***************************************************************************)
base_url == "https://firms.modaps.eosdis.nasa.gov/data/active_fire"

\* the dict with viirs first
sources_reordered == << [ name |-> "viirs",        path |-> "viirs-snpp" ],
                        [ name |-> "modis",        path |-> "modis-c6.1" ],
                        [ name |-> "viirs_noaa20", path |-> "viirs-noaa20" ] >>

\* the dict `sources`, in insertion order
sources == << [ name |-> "modis",        path |-> "modis-c6.1" ],
              [ name |-> "viirs",        path |-> "viirs-snpp" ],
              [ name |-> "viirs_noaa20", path |-> "viirs-noaa20" ] >>

\* the template without the source's path
url_without_source(source_path) ==
    << base_url, "txt", "MODIS_C6_1_Global_24h.csv" >>

\* f"{base_url}/{source_path}/txt/MODIS_C6_1_Global_24h.csv"
url(source_path) ==
    << base_url, source_path, "txt", "MODIS_C6_1_Global_24h.csv" >>

(***************************************************************************)
(* The output directory.  A file name is the sequence of its parts, cut    *)
(* where the glob pattern "fire_snapshot*.csv" can cut it.                 *)
(***************************************************************************)
\* os.path.join(output_dir, "fire_snapshot.csv")
csv_file == << "fire_snapshot", ".csv" >>

FileNames == { csv_file,
               << "fire_snapshot", "_old", ".csv" >>,
               << "fire_snapshot", ".csv", ".bak" >>,
               << "my_", "fire_snapshot", ".csv" >> }

\* the pattern without its wildcard
fnmatch_exact(name) == name = csv_file

\* fnmatch(name, "fire_snapshot*.csv")
fnmatch(name) ==
    /\ Len(name) >= 2
    /\ name[1] = "fire_snapshot"
    /\ name[Len(name)] = ".csv"

\* glob.glob(os.path.join(output_dir, "fire_snapshot*.csv"))
glob(d) == { name \in DOMAIN d : fnmatch(name) }

\* what a file left by an earlier run holds
StaleTable == MkTable(Columns, << "2026-10-31" >>, << 7 >>)

\* what a file holds when the write into it failed part-way
Truncated == [ cols |-> {}, rows |-> << >> ]

Dirs(names) == UNION { [ S -> { StaleTable } ] : S \in SUBSET names }

(***************************************************************************)
(* DataFrame.sort_values('frp', ascending=False) with the default          *)
(* kind='quicksort': rows with a frp value come first in non-increasing    *)
(* order, rows without one (NaN) come last in their original order.  The   *)
(* default sort is not stable, so the order of rows with equal frp is any  *)
(* order.                                                                  *)
(***************************************************************************)
Perms(n) == { f \in [1..n -> 1..n] : \A a, b \in 1..n : a # b => f[a] # f[b] }

Descending(rows, f) ==
    \A a, b \in 1..Len(rows) : a < b =>
        LET x == rows[f[a]]["frp"]
            y == rows[f[b]]["frp"]
        IN  /\ x = NaN => y = NaN
            /\ (x # NaN /\ y # NaN) => x >= y
            /\ (x = NaN /\ y = NaN) => f[a] < f[b]

Ascending(rows, f) ==
    \A a, b \in 1..Len(rows) : a < b =>
        LET x == rows[f[a]]["frp"]
            y == rows[f[b]]["frp"]
        IN  /\ x = NaN => y = NaN
            /\ (x # NaN /\ y # NaN) => x <= y
            /\ (x = NaN /\ y = NaN) => f[a] < f[b]

\* ascending=True
sort_values_ascending(rows) ==
    { [ k \in 1..Len(rows) |-> rows[f[k]] ] :
        f \in { g \in Perms(Len(rows)) : Ascending(rows, g) } }

sort_values(rows) ==
    { [ k \in 1..Len(rows) |-> rows[f[k]] ] :
        f \in { g \in Perms(Len(rows)) : Descending(rows, g) } }

\* the tables save_fire_data may write for df (lines 144-148)
df_sorted(t) ==
    IF "frp" \in t.cols
    THEN { [ cols |-> t.cols, rows |-> r ] : r \in sort_values(t.rows) }
    ELSE { t }

(***************************************************************************)
(* analyze_fire_data: the only step that can fail is the formatting of     *)
(* the listed rows, f"{fire.get('latitude', 'N/A'):.2f}".                  *)
(***************************************************************************)
\* fire.get(col, 'N/A')
get(fire, col) ==
    IF col \in DOMAIN fire
    THEN [ is_str |-> FALSE, value |-> fire[col] ]
    ELSE [ is_str |-> TRUE, value |-> "N/A" ]

\* format(v, ".2f") raises ValueError for a str
format_2f_raises(v) == v.is_str

\* analyze_fire_data(df) raises
analyze_raises(t) ==
    /\ "acq_time" \in t.cols
    /\ \E k \in 1..Len(t.rows) :
          \/ format_2f_raises(get(t.rows[k], "latitude"))
          \/ format_2f_raises(get(t.rows[k], "longitude"))

(***************************************************************************)
(* Values of the per-invocation variables.                                 *)
(***************************************************************************)
NoDate == [ y |-> 0, m |-> 0, d |-> 0 ]

NoResponse == [ kind |-> "none" ]

NoTable == [ cols |-> {}, rows |-> << >> ]

NoSource == ""

Pending == [ kind |-> "pending" ]

\* return None, None, None
NullTriple == [ kind |-> "null" ]

\* tmp_file.name: one fresh name per call
tmp_path(p) == p

\* ek.from_source("file", tmp_path)
from_source(path) == [ source |-> "file", path |-> path ]

\* return processed_df, earthkit_data, saved_files
Triple(t, data, files) ==
    [ kind |-> "triple", df |-> t, data |-> data, files |-> files ]

Active(p) == pc[p] \notin { "idle", "done" }

(***************************************************************************)
(* main: the try block's except clause.  Every stage's exception is an     *)
(* Exception; main logs it and returns (None, None, None).  The frame's    *)
(* locals are gone when main returns.                                      *)
(***************************************************************************)
Return(p, res, err) ==
    /\ pc' = [pc EXCEPT ![p] = "done"]
    /\ result' = [result EXCEPT ![p] = res]
    /\ error' = [error EXCEPT ![p] = err]
    /\ today' = [today EXCEPT ![p] = NoDate]
    /\ response' = [response EXCEPT ![p] = NoResponse]
    /\ df' = [df EXCEPT ![p] = NoTable]
    /\ source_name' = [source_name EXCEPT ![p] = NoSource]
    /\ listed' = [listed EXCEPT ![p] = {}]
    /\ requested' = [requested EXCEPT ![p] = << >>]

\* the exception leaves main
Propagate(p, err) == Return(p, [ kind |-> "raised" ], err)

Except(p, err) == Return(p, NullTriple, err)

Done(p, stage) == stages' = [stages EXCEPT ![p] = Append(@, stage)]

(***************************************************************************)
(* main, lines 193-202: entry, and get_latest_fire_data up to the loop.    *)
(***************************************************************************)
Enter(p, days) ==
    /\ pc[p] = "idle"
    /\ \E now \in days : today' = [today EXCEPT ![p] = now]
    /\ pc' = [pc EXCEPT ![p] = "request"]
    /\ UNCHANGED <<dir, tmp, requested, response, df, source_name, listed,
                   stages, error, result>>

\* one invocation at a time
Start(p, days) ==
    /\ \A q \in Procs : ~Active(q)
    /\ Enter(p, days)

\* invocations started while others run
StartConcurrent(p, days) == Enter(p, days)

(***************************************************************************)
(* get_latest_fire_data, lines 49-59: the next source's GET request.       *)
(***************************************************************************)
next_source(p) == sources[Len(requested[p]) + 1]

Request(p, resps) ==
    /\ pc[p] = "request"
    /\ Len(requested[p]) < Len(sources)
    /\ \E resp \in resps : response' = [response EXCEPT ![p] = resp]
    /\ requested' = [requested EXCEPT ![p] =
            Append(@, [ source |-> next_source(p).name,
                        url |-> url(next_source(p).path) ])]
    /\ pc' = [pc EXCEPT ![p] = "parse"]
    /\ UNCHANGED <<today, dir, tmp, df, source_name, listed, stages, error, result>>

\* the date filter left out
yields_any_row(resp, today_str) ==
    /\ resp.kind = "table"
    /\ ~empty(resp.table)

\* lines 65-69: the response yields rows for today
yields(resp, today_str) ==
    /\ resp.kind = "table"
    /\ ~empty(resp.table)
    /\ "acq_date" \in resp.table.cols
    /\ ~empty(filter_today(resp.table, today_str))

\* lines 61-84: parse, filter, and return or continue
Parse(p) ==
    /\ pc[p] = "parse"
    /\ IF yields(response[p], strftime(today[p]))
       THEN /\ df' = [df EXCEPT ![p] = filter_today(response[p].table, strftime(today[p]))]
            /\ source_name' = [source_name EXCEPT ![p] = requested[p][Len(requested[p])].source]
            /\ response' = [response EXCEPT ![p] = NoResponse]
            /\ pc' = [pc EXCEPT ![p] = "load"]
            /\ Done(p, "fetch")
       ELSE /\ pc' = [pc EXCEPT ![p] = "request"]
            /\ UNCHANGED <<df, source_name, response, stages>>
    /\ UNCHANGED <<today, dir, tmp, requested, listed, error, result>>

AllSourcesFailed == "Failed to download fire data from all sources"

\* line 86: raise Exception("Failed to download fire data from all sources")
Exhausted(p) ==
    /\ pc[p] = "request"
    /\ Len(requested[p]) = Len(sources)
    /\ Except(p, AllSourcesFailed)
    /\ UNCHANGED <<dir, tmp, stages>>

(***************************************************************************)
(* process_fire_data_with_earthkit.                                        *)
(***************************************************************************)
\* lines 102-104: the temporary file is created (delete=False) and the table
\* is written into it; neither is inside the try block.
LoaderCreate(p) ==
    /\ pc[p] = "load"
    /\ \/ /\ tmp' = tmp \cup { tmp_path(p) }
          /\ pc' = [pc EXCEPT ![p] = "load_source"]
          /\ UNCHANGED <<today, requested, response, df, source_name, listed, error,
                         result>>
       \/ \* df.to_csv raises: the with block closes the file and keeps it
          /\ tmp' = tmp \cup { tmp_path(p) }
          /\ Except(p, "loader: to_csv")
       \/ \* NamedTemporaryFile raises: no file was created
          /\ tmp' = tmp
          /\ Except(p, "loader: NamedTemporaryFile")
    /\ UNCHANGED <<dir, stages>>

\* os.unlink(tmp_path)
unlink(files, path) == files \ { path }

\* lines 106-124: the try block and its finally clause
LoaderSource(p) ==
    /\ pc[p] = "load_source"
    /\ tmp' = unlink(tmp, tmp_path(p))
    /\ \/ /\ pc' = [pc EXCEPT ![p] = "analyze"]
          /\ Done(p, "load")
          /\ UNCHANGED <<today, requested, response, df, source_name, listed, error,
                         result>>
       \/ \* ek.from_source raises
          /\ Except(p, "loader: from_source")
          /\ UNCHANGED stages
    /\ UNCHANGED dir

(***************************************************************************)
(* analyze_fire_data.                                                      *)
(***************************************************************************)
Analyze(p) ==
    /\ pc[p] = "analyze"
    /\ IF analyze_raises(df[p])
       THEN /\ Except(p, "analyzer: format")
            /\ UNCHANGED stages
       ELSE /\ pc' = [pc EXCEPT ![p] = "save"]
            /\ Done(p, "analyze")
            /\ UNCHANGED <<today, requested, response, df, source_name, listed, error,
                           result>>
    /\ UNCHANGED <<dir, tmp>>

(***************************************************************************)
(* save_fire_data.                                                         *)
(***************************************************************************)
\* lines 136-140: makedirs, and the list glob.glob returns
SaveGlob(p) ==
    /\ pc[p] = "save"
    /\ listed' = [listed EXCEPT ![p] = glob(dir)]
    /\ pc' = [pc EXCEPT ![p] = "remove"]
    /\ UNCHANGED <<today, dir, tmp, requested, response, df, source_name, stages,
                   error, result>>

\* os.remove given a path that is not under output_dir
remove_wrong_path(d, name) == FALSE

\* os.remove(old_file) succeeds
remove_ok(d, name) == name \in DOMAIN d

\* lines 140-141: one iteration of the loop over the listed files
SaveRemove(p) ==
    /\ pc[p] = "remove"
    /\ \E old_file \in listed[p] :
          IF remove_ok(dir, old_file)
          THEN /\ dir' = [ name \in DOMAIN dir \ { old_file } |-> dir[name] ]
               /\ listed' = [listed EXCEPT ![p] = @ \ { old_file }]
               /\ UNCHANGED <<today, pc, requested, response, df, source_name, error,
                              result>>
          ELSE \* FileNotFoundError
               /\ Except(p, "writer: remove")
               /\ UNCHANGED dir
    /\ UNCHANGED <<tmp, stages>>

write_file(d, name, content) ==
    [ n \in DOMAIN d \cup { name } |-> IF n = name THEN content ELSE d[n] ]

\* lines 143-156 and main's lines 214-220: sort, write, return
SaveWrite(p) ==
    /\ pc[p] = "remove"
    /\ listed[p] = {}
    /\ \/ \E sorted \in df_sorted(df[p]) :
             /\ dir' = write_file(dir, csv_file, sorted)
             /\ Return(p, Triple(df[p], from_source(tmp_path(p)), [ csv |-> csv_file ]),
                       "")
             /\ Done(p, "save")
       \/ \* to_csv raises: the file was not opened, or was and is incomplete
          /\ dir' \in { dir, write_file(dir, csv_file, Truncated) }
          /\ Except(p, "writer: to_csv")
          /\ UNCHANGED stages
    /\ UNCHANGED tmp

(***************************************************************************)
(* Specifications.                                                         *)
(***************************************************************************)
InitOn(dirs) ==
    /\ today = [p \in Procs |-> NoDate]
    /\ dir \in dirs
    /\ tmp = {}
    /\ pc = [p \in Procs |-> "idle"]
    /\ requested = [p \in Procs |-> << >>]
    /\ response = [p \in Procs |-> NoResponse]
    /\ df = [p \in Procs |-> NoTable]
    /\ source_name = [p \in Procs |-> NoSource]
    /\ listed = [p \in Procs |-> {}]
    /\ stages = [p \in Procs |-> << >>]
    /\ error = [p \in Procs |-> ""]
    /\ result = [p \in Procs |-> Pending]

Steps(p, resps) ==
    \/ Request(p, resps)
    \/ Parse(p)
    \/ Exhausted(p)
    \/ LoaderCreate(p)
    \/ LoaderSource(p)
    \/ Analyze(p)
    \/ SaveGlob(p)
    \/ SaveRemove(p)
    \/ SaveWrite(p)

\* The column sets of the responses: every column, each of the columns the
\* stages test for missing, and two sets that leave only one or two.
ColumnSets == { Columns,
                Columns \ { "frp" },
                Columns \ { "acq_date" },
                Columns \ { "latitude" },
                Columns \ { "acq_time", "latitude", "longitude", "confidence" },
                { "acq_date", "acq_time" } }

\* One invocation, on responses of every shape, in a directory that holds
\* any of the snapshot files.
MainResponses == Responses(Tables(ColumnSets, DateStrs, { 32 }))

Init == InitOn(Dirs({ csv_file, << "fire_snapshot", "_old", ".csv" >> }))

Next == \E p \in { 1 } : Start(p, Days) \/ Steps(p, MainResponses)

Spec == Init /\ [][Next]_vars

\* One invocation on tables of today's rows with every order of frp values.
OneDay == { [y |-> 2026, m |-> 11, d |-> 2] }

SortResponses ==
    Responses(Tables({ Columns, Columns \ { "frp" } }, { "2026-11-02" },
                     { 10, 32, 105, NaN }))

NextSort == \E p \in { 1 } : Start(p, OneDay) \/ Steps(p, SortResponses)

SpecSort == InitOn(Dirs({ csv_file })) /\ [][NextSort]_vars

\* Invocations one after another on the same directory.
RunsResponses ==
    Responses(Tables({ Columns, Columns \ { "frp" } }, { "2026-11-02" }, { 10, 32 }))

NextRuns == \E p \in Procs : Start(p, OneDay) \/ Steps(p, RunsResponses)

SpecRuns == InitOn({ d \in Dirs(FileNames) : Cardinality(DOMAIN d) \in { 0, 4 } })
            /\ [][NextRuns]_vars

\* Two invocations at the same time on the same directory.
ConcResponses ==
    Responses(Tables({ Columns }, { "2026-11-02" }, { 32 }))

NextConc == \E p \in Procs : StartConcurrent(p, OneDay) \/ Steps(p, ConcResponses)

SpecConc == InitOn(Dirs({ csv_file })) /\ [][NextConc]_vars

(***************************************************************************)
(* Properties.                                                             *)
(***************************************************************************)
SourceOrder == << "modis", "viirs", "viirs_noaa20" >>

\* today's "YYYY-MM-DD" string, written out for the days of the model
TodayString(date) ==
    CASE date = [y |-> 2026, m |-> 11, d |-> 1] -> "2026-11-01"
      [] date = [y |-> 2026, m |-> 11, d |-> 2] -> "2026-11-02"
      [] OTHER -> ""

\* the rows of a response whose acq_date is today's string, in response order
TodayRows(resp, date) ==
    IF resp.kind = "table" /\ "acq_date" \in resp.table.cols
    THEN SelectSeq(resp.table.rows, LAMBDA r : r["acq_date"] = TodayString(date))
    ELSE << >>

InFetch(p) == pc[p] \in { "request", "parse" }

AfterFetch(p) == pc[p] \in { "load", "load_source", "analyze", "save", "remove" }

C1_Order ==
    \A p \in Procs :
        /\ Len(requested[p]) <= 3
        /\ \A k \in 1..Len(requested[p]) : requested[p][k].source = SourceOrder[k]
        /\ AfterFetch(p) =>
              /\ requested[p] # << >>
              /\ source_name[p] = requested[p][Len(requested[p])].source
              /\ df[p].rows # << >>

C1_Step ==
    \A p \in Procs :
        \* a request is the next source's, issued after the previous response
        \* gave no rows for today
        /\ (requested'[p] # requested[p] /\ requested'[p] # << >>) =>
              /\ Len(requested'[p]) = Len(requested[p]) + 1
              /\ requested[p] # << >> => TodayRows(response[p], today[p]) = << >>
        \* the source that gives rows for today ends the loop
        /\ (pc[p] = "parse" /\ TodayRows(response[p], today[p]) # << >>
              /\ pc'[p] # pc[p]) =>
              /\ pc'[p] = "load"
              /\ source_name'[p] = requested[p][Len(requested[p])].source
              /\ df'[p].rows = TodayRows(response[p], today[p])
        \* no request after the fetch returned
        /\ AfterFetch(p) => requested'[p] \in { requested[p], << >> }

\* C1: the sources are requested in the order modis, viirs, viirs_noaa20, each
\* at most once; a source is requested only after every earlier one was
\* requested and gave no rows for today; the first source that gives rows for
\* today ends the loop, and its rows are returned with its name.
C1_FixedOrderUntilFirstSuccess == []C1_Order /\ [][C1_Step]_vars

\* the third source is the one that gave rows for today
C1_Witness ==
    /\ pc[1] = "load"
    /\ Len(requested[1]) = 3
    /\ source_name[1] = "viirs_noaa20"

\* C2: the table get_latest_fire_data returns is non-empty, has the columns of
\* the response, and its rows are exactly the response's rows whose acq_date
\* equals today's "YYYY-MM-DD" string, in response order.
C2_ExactlyTodaysRowsInOrder ==
    [][ \A p \in Procs :
          (pc[p] = "parse" /\ pc'[p] = "load") =>
              /\ df'[p].rows = TodayRows(response[p], today[p])
              /\ df'[p].rows # << >>
              /\ df'[p].cols = response[p].table.cols ]_vars

\* the first and third row of a response of three rows were kept, the second
\* one (of another date) was not
C2_Witness ==
    /\ pc[1] = "load"
    /\ Len(df[1].rows) = 2
    /\ "latitude" \in df[1].cols
    /\ df[1].rows[1]["latitude"] = 1
    /\ df[1].rows[2]["latitude"] = 3

\* C10 as claimed: every request of a run goes to one and the same URL.
C10_OneUrl ==
    \A p \in Procs : \A a, b \in 1..Len(requested[p]) :
        requested[p][a].url = requested[p][b].url

\* C10: the requests of a run share the base URL and the file name
\* MODIS_C6_1_Global_24h.csv but carry their source's path, so the URLs of
\* different sources are different.
C10_SameFileDistinctUrls ==
    \A p \in Procs : \A a, b \in 1..Len(requested[p]) :
        LET u == requested[p][a].url
            v == requested[p][b].url
        IN  /\ Len(u) = 4
            /\ u[1] = v[1]
            /\ u[3] = "txt"
            /\ u[4] = "MODIS_C6_1_Global_24h.csv"
            /\ u[2] \in { "modis-c6.1", "viirs-snpp", "viirs-noaa20" }
            /\ a # b => u # v

C10_Witness == Len(requested[1]) = 3

AllStages == << "fetch", "load", "analyze", "save" >>

C3_Step ==
    \A p \in Procs :
        \* nothing on disk changes while the sources are tried
        /\ InFetch(p) => (dir' = dir /\ tmp' = tmp)
        \* a source without rows for today does not end the loop
        /\ (pc[p] = "parse" /\ TodayRows(response[p], today[p]) = << >>
              /\ pc'[p] # pc[p]) =>
              /\ pc'[p] = "request"
              /\ stages'[p] = << >>
        \* after the third such source the run ends with the all-sources error
        /\ (pc[p] = "request" /\ Len(requested[p]) = 3 /\ pc'[p] # pc[p]) =>
              /\ pc'[p] = "done"
              /\ error'[p] = "Failed to download fire data from all sources"
              /\ result'[p] = NullTriple
              /\ stages'[p] = << >>

\* C3: when every source fails or has no rows for today, the fetch fails with
\* the all-sources error, main returns (None, None, None), no later stage runs
\* and nothing in the output directory (or the temporary directory) changes.
C3_ExhaustionTouchesNothing == [][C3_Step]_vars

\* the run ended with the all-sources error and the snapshot that was there
\* before it is still there
C3_Witness ==
    /\ pc[1] = "done"
    /\ error[1] = "Failed to download fire data from all sources"
    /\ result[1] = NullTriple
    /\ csv_file \in DOMAIN dir
    /\ dir[csv_file] = StaleTable

InLoaderTry(p) == pc[p] = "load_source"

\* C6: whenever an invocation is not between the creation of its temporary
\* file and the end of process_fire_data_with_earthkit, that file does not
\* exist.
C6_TempFileGoneOnEveryExit ==
    \A p \in Procs : ~InLoaderTry(p) => tmp_path(p) \notin tmp

\* C7: analyze_fire_data never raises, whichever of the columns are missing.
C7_AnalyzerNeverRaises ==
    \A p \in Procs :
        (pc[p] = "done" /\ stages[p] = << "fetch", "load" >>) => error[p] = ""

\* C8: main returns (None, None, None) exactly when a stage raised, whichever
\* stage it was, and otherwise the triple of the table, the loader's handle
\* and the saved path, which it returns only after the four stages fetch,
\* load, analyze, save completed in this order; no error leaves main.
C8_MainCatchesEveryStageError ==
    \A p \in Procs :
        /\ pc[p] = "done" =>
              /\ result[p].kind \in { "null", "triple" }
              /\ result[p].kind = "null" <=> error[p] # ""
              /\ result[p].kind = "null" => stages[p] # AllStages
              /\ result[p].kind = "triple" =>
                    /\ stages[p] = AllStages
                    /\ result[p].df.rows # << >>
                    /\ result[p].files = [ csv |-> csv_file ]
        /\ pc[p] # "done" => result[p].kind = "pending"
        /\ \E k \in 0..4 : stages[p] = SubSeq(AllStages, 1, k)

\* the writer raised after the three earlier stages completed
C8_Witness ==
    /\ pc[1] = "done"
    /\ result[1] = NullTriple
    /\ error[1] = "writer: to_csv"
    /\ stages[1] = << "fetch", "load", "analyze" >>

Saved(p) == pc[p] = "done" /\ result[p].kind = "triple"

\* out holds the rows of in, each once (the rows of a table are distinct)
Permutation(in, out) ==
    /\ Len(out) = Len(in)
    /\ \A k \in 1..Len(in) : \E j \in 1..Len(out) : out[j] = in[k]

Position(in, row) == CHOOSE k \in 1..Len(in) : in[k] = row

\* frp values do not increase along out; rows without a value come last
NonIncreasing(out) ==
    \A a \in 1..Len(out) - 1 :
        LET x == out[a]["frp"]
            y == out[a + 1]["frp"]
        IN  /\ x = NaN => y = NaN
            /\ (x # NaN /\ y # NaN) => x >= y

StableOrder(in, out) ==
    \A a, b \in 1..Len(out) :
        (a < b /\ out[a]["frp"] = out[b]["frp"]) =>
            Position(in, out[a]) < Position(in, out[b])

\* C4 as claimed: the written rows are a permutation of the input rows in
\* non-increasing frp order, and rows with equal frp keep their input order.
C4_StableDescendingSort ==
    \A p \in Procs :
        (Saved(p) /\ "frp" \in result[p].df.cols) =>
            /\ Permutation(result[p].df.rows, dir[csv_file].rows)
            /\ NonIncreasing(dir[csv_file].rows)
            /\ StableOrder(result[p].df.rows, dir[csv_file].rows)

\* C4: when the table has an frp column, the written rows are a permutation
\* of the input rows in non-increasing frp order, rows without an frp value
\* last; the order of rows with equal frp is not fixed.
C4_DescendingSort ==
    \A p \in Procs :
        (Saved(p) /\ "frp" \in result[p].df.cols) =>
            /\ dir[csv_file].cols = result[p].df.cols
            /\ Permutation(result[p].df.rows, dir[csv_file].rows)
            /\ NonIncreasing(dir[csv_file].rows)

FrpValues(rows) == [ k \in 1..Len(rows) |-> rows[k]["frp"] ]

\* frp values [3.2, 10.5, 1.0] (in tenths) are written as [10.5, 3.2, 1.0]
C4_Witness ==
    /\ Saved(1)
    /\ "frp" \in result[1].df.cols
    /\ FrpValues(result[1].df.rows) = << 32, 105, 10 >>
    /\ FrpValues(dir[csv_file].rows) = << 105, 32, 10 >>

SnapshotNames == { csv_file, << "fire_snapshot", "_old", ".csv" >> }

C5_State ==
    \* every invocation so far succeeded and none is running
    ((\E p \in Procs : Saved(p)) /\ (\A p \in Procs : pc[p] = "idle" \/ Saved(p))) =>
        /\ DOMAIN dir \cap SnapshotNames = { csv_file }
        /\ \E p \in Procs :
              /\ Saved(p)
              /\ dir[csv_file].cols = result[p].df.cols
              /\ Permutation(result[p].df.rows, dir[csv_file].rows)

C5_Step ==
    \* the run that ends leaves its own table in the one snapshot file
    \A p \in Procs :
        (pc[p] # "done" /\ Saved(p)') =>
            /\ DOMAIN dir' \cap SnapshotNames = { csv_file }
            /\ dir'[csv_file].cols = result'[p].df.cols
            /\ Permutation(result'[p].df.rows, dir'[csv_file].rows)

\* C5: after one or more successful runs on the same directory, whatever
\* snapshot files it held at first, exactly one file matches
\* fire_snapshot*.csv; it is fire_snapshot.csv and holds the rows of the
\* last run's table.
C5_OneSnapshotOfLastRun == []C5_State /\ [][C5_Step]_vars

\* two successful runs of different tables in a directory that held two
\* snapshot files (and two other files, which are still there)
C5_Witness ==
    /\ Saved(1) /\ Saved(2)
    /\ result[1].df # result[2].df
    /\ << "my_", "fire_snapshot", ".csv" >> \in DOMAIN dir
    /\ dir[csv_file].rows # << >>
    /\ ~Permutation(result[1].df.rows, dir[csv_file].rows)

\* C9: an invocation's delete step fails only when another invocation has
\* reached its own writer (and removed a file both had listed); the
\* invocation that fails had fetched rows, loaded and analyzed them, and
\* returns (None, None, None).
C9_DeleteFailsOnlyUnderRace ==
    \A p \in Procs :
        error[p] = "writer: remove" =>
            /\ result[p] = NullTriple
            /\ stages[p] = << "fetch", "load", "analyze" >>
            /\ \E q \in Procs \ { p } :
                  /\ pc[q] \in { "remove", "done" }
                  /\ Len(stages[q]) >= 3

\* invocation 1 failed in its delete step while invocation 2 succeeded
C9_Witness ==
    /\ error[1] = "writer: remove"
    /\ result[1] = NullTriple
    /\ Saved(2)

====
